---- MODULE Spec2Model ----
(***************************************************************************)
(* Model of app.py, the Streamlit dashboard of the predictive maintenance  *)
(* system.  One behaviour is the life of one server process serving one    *)
(* session: the script is executed from its first line on the first page   *)
(* load and again on every user interaction (a rerun).  Each run starts    *)
(* with an empty script namespace and repaints the page from the top.      *)
(* matplotlib.pyplot is imported once by the process: its registry of      *)
(* open figures (figures) lives as long as the process does.               *)
(*                                                                         *)
(* steps, calls and first record what happened (the statements executed in *)
(* the run, the artifact calls of the run with their arguments, the first  *)
(* prediction cycle); the script does not read them.                       *)
(*                                                                         *)
(* Numbers: a probability p is held as the integer p * ProbUnit, a         *)
(* remaining useful life r (hours) as the integer r * RulUnit; the form's  *)
(* numeric inputs are sampled at whole numbers.                            *)
(*                                                                         *)
(* Texts: a character outside ASCII in a string of app.py is written as    *)
(* its escape, \u00B0 for the degree sign and \u2022 for the bullet.       *)
(***************************************************************************)
EXTENDS Integers, Sequences, FiniteSets, TLC

VARIABLES disk, pc, globals, display, figures, loads, runs, steps, calls, first

vars == <<disk, pc, globals, display, figures, loads, runs, steps, calls, first>>

\* ---------------------------------------------------------------- bounds
\* Number of executions of the script (first page load + reruns).
MaxRuns == 3

\* ------------------------------------------------------- number encoding
ProbUnit == 1000
RulUnit == 100

\* Python's int(): truncation toward zero of n / d (d > 0).
TruncDiv(n, d) == IF n >= 0 THEN n \div d ELSE -((-n) \div d)

\* Python's format rounding (round-half-even) of n / d to an integer (d > 0).
RoundHalfEven(n, d) ==
    LET q == n \div d
        r == n - q * d
    IN  IF 2 * r < d THEN q
        ELSE IF 2 * r > d THEN q + 1
        ELSE IF q % 2 = 0 THEN q ELSE q + 1

\* ------------------------------------------------------ script namespace
\* Python name binding: the namespace is a function from bound names to values.
Bind(ns, name, val) ==
    [n \in (DOMAIN ns) \cup {name} |-> IF n = name THEN val ELSE ns[n]]

Bound(name) == name \in DOMAIN globals

\* The namespace a fresh execution of the script starts with.
EmptyNamespace == [n \in {} |-> 0]

\* --------------------------------------------------------- page elements
Element(tab, el, text, num) == [tab |-> tab, el |-> el, text |-> text, num |-> num]

Elements(kind) == {i \in 1..Len(display) : display[i].el = kind}

Shown(tab, kind) == {i \in 1..Len(display) : display[i].tab = tab /\ display[i].el = kind}

ShownText(t) == \E i \in 1..Len(display) : display[i].text = t

\* ------------------------------------------------------- artifact store
\* The three serialized artifacts are opaque to app.py.  They are modelled
\* by the interface the script uses: a preprocessor that selects the columns
\* it was fitted on, a classifier and a regressor that are decision stumps
\* over the transformed vector, and the classifier's behaviour under SHAP.
ArtifactFiles == {"best_model.pkl", "rul_model.pkl", "preprocessor.pkl"}

Columns ==
    {"Machine_Model", "Avg_Temperature", "Vibration_Level", "Rotating_Speed",
     "Voltage_Fluctuation", "Torque_Nm", "Oil_Viscosity", "Ambient_Humidity",
     "Operator_Experience", "Last_Service_Days", "Fault_Code",
     "Working_Hours_Total", "Rolling_Avg_Temp", "Stress_Index", "Machine_Age",
     "Operator_Experience_Level"}

\* A preprocessor fitted on the script's columns, and one fitted on a
\* training frame that had one more column.
Preprocessors == {[columns |-> Columns], [columns |-> Columns \cup {"Temp_Delta"}]}

\* preprocessor.transform: raises when a fitted column is missing.
transform_raises(pre, df) == ~(pre.columns \subseteq DOMAIN df)

\* The fitted encoding of a categorical column: the ordinal of the category.
CategoryCode(v) ==
    CASE v \in {"Model_A", "None", "Junior"} -> 0
      [] v \in {"Model_B", "E101", "Mid"} -> 1
      [] OTHER -> 2

CategoricalColumns == {"Machine_Model", "Operator_Experience", "Fault_Code"}

\* The numeric vector: fitted columns only, categories encoded.
transform(pre, df) ==
    [c \in pre.columns |->
        IF c \in CategoricalColumns THEN CategoryCode(df[c]) ELSE df[c]]

\* Where the SHAP computation fails for a classifier ("ok": nowhere).
ExplainOutcomes == {"ok", "TreeExplainer", "shap_values", "waterfall"}

\* Leaves of the classifier stump: positive-class probability and label.
\* The last two are outside the documented contract of a binary classifier:
\* the label of a third class, and a score that is not a probability.
ClassifierLeaves ==
    {[p |-> 950, c |-> 0], [p |-> 50, c |-> 1], [p |-> 300, c |-> 2],
     [p |-> 1500, c |-> 1]}

Classifiers == [shap : ExplainOutcomes, lo : ClassifierLeaves, hi : ClassifierLeaves]

LevelSplit == 1

ClassifierLeaf(clf, X) ==
    IF X["Operator_Experience_Level"] > LevelSplit THEN clf.hi ELSE clf.lo

\* model.predict_proba(X)[0][1]
predict_proba(clf, X) == ClassifierLeaf(clf, X).p

\* model.predict(X)[0]
predict(clf, X) == ClassifierLeaf(clf, X).c

RulLeaves == {25000, 120000}

\* Stumps whose estimate does not grow with the machine's age.
Regressors == {reg \in [lo : RulLeaves, hi : RulLeaves] : reg.lo <= reg.hi}

AgeSplit == 10000

\* explainer.expected_value: the base value of the attribution.
expected_value(clf) == (clf.lo.p + clf.hi.p) \div 2

\* explainer.shap_values(X)[0]: additive per-feature contributions, summing
\* to the prediction minus the base value; the stump's split feature carries it.
shap_values(clf, X) ==
    [c \in DOMAIN X |->
        IF c = "Operator_Experience_Level"
        THEN ClassifierLeaf(clf, X).p - expected_value(clf)
        ELSE 0]

\* rul_model.predict(X)[0]
rul_predict(reg, X) == IF X["Machine_Age"] > AgeSplit THEN reg.lo ELSE reg.hi

\* What the artifact store can hold: each file readable with its object, or
\* unreadable (its content is then never seen).
Stores ==
    {[f \in ArtifactFiles |->
        [readable |-> f \notin bad,
         obj |-> CASE f \in bad -> "unreadable"
                   [] f = "best_model.pkl" -> clf
                   [] f = "rul_model.pkl" -> reg
                   [] OTHER -> pre]] :
        bad \in SUBSET ArtifactFiles, clf \in Classifiers, reg \in Regressors,
        pre \in Preprocessors}

\* ------------------------------------------------------------ the form
MachineModels == {"Model_A", "Model_B", "Model_C"}
FaultCodes == {"None", "E101", "E202"}
ExperienceOptions == {"Junior", "Mid", "Senior"}

TempMax == 150
VibrationMax == 20
RotSpeedMax == 6000
VoltageMax == 300
TorqueMax == 200
OilViscosityMax == 100
HumidityMax == 100
LastServiceMax == 1000
WorkingHoursMax == 50000

TempDefault == 50
VibrationDefault == 2
RotSpeedDefault == 1500
VoltageDefault == 5
TorqueDefault == 100
OilViscosityDefault == 10
HumidityDefault == 40
LastServiceDefault == 30
WorkingHoursDefault == 1000

\* Every form whose numeric fields are at their default or at their maximum.
Forms ==
    [machine_model : MachineModels,
     temp : {TempDefault, TempMax},
     vibration : {VibrationDefault, VibrationMax},
     rot_speed : {RotSpeedDefault, RotSpeedMax},
     voltage : {VoltageDefault, VoltageMax},
     torque : {TorqueDefault, TorqueMax},
     oil_viscosity : {OilViscosityDefault, OilViscosityMax},
     humidity : {HumidityDefault, HumidityMax},
     operator_exp : ExperienceOptions,
     last_service_days : {LastServiceDefault, LastServiceMax},
     fault_code : FaultCodes,
     working_hours : {WorkingHoursDefault, WorkingHoursMax}]

\* The forms of the full-script specification: the fields the stumps read
\* (experience, working hours) vary, the rest stay at their defaults.
CycleForms ==
    {f \in Forms :
        /\ f.machine_model = "Model_A" /\ f.fault_code = "None"
        /\ f.torque = TorqueDefault
        /\ f.temp = TempDefault /\ f.vibration = VibrationDefault
        /\ f.rot_speed = RotSpeedDefault /\ f.voltage = VoltageDefault
        /\ f.oil_viscosity = OilViscosityDefault /\ f.humidity = HumidityDefault
        /\ f.last_service_days = LastServiceDefault}

\* What the widgets return on the first page load: the value argument of a
\* number_input, the first option of a selectbox.
DefaultForm ==
    [machine_model |-> "Model_A", temp |-> TempDefault, vibration |-> VibrationDefault,
     rot_speed |-> RotSpeedDefault, voltage |-> VoltageDefault, torque |-> TorqueDefault,
     oil_viscosity |-> OilViscosityDefault, humidity |-> HumidityDefault,
     operator_exp |-> "Junior", last_service_days |-> LastServiceDefault,
     fault_code |-> "None", working_hours |-> WorkingHoursDefault]

WidgetNames ==
    {"machine_model", "temp", "vibration", "rot_speed", "voltage", "torque",
     "oil_viscosity", "humidity", "operator_exp", "last_service_days",
     "fault_code", "working_hours"}

\* The widget values of the current run, as a form record.
CurrentForm == [w \in WidgetNames |-> globals[w]]

\* -------------------------------------------------- feature engineering
\* Variant: sum for product.
stress_index_sum(torque, vibration) == torque + vibration

stress_index(torque, vibration) == torque * vibration

rolling_avg_temp(temp) == temp

machine_age(working_hours) == working_hours

exp_map == [e \in ExperienceOptions |->
              CASE e = "Junior" -> 1 [] e = "Mid" -> 2 [] OTHER -> 3]

\* pd.DataFrame({...}) of one row, from the namespace ns.
input_df(ns) ==
    [c \in Columns |->
        CASE c = "Machine_Model" -> ns["machine_model"]
          [] c = "Avg_Temperature" -> ns["temp"]
          [] c = "Vibration_Level" -> ns["vibration"]
          [] c = "Rotating_Speed" -> ns["rot_speed"]
          [] c = "Voltage_Fluctuation" -> ns["voltage"]
          [] c = "Torque_Nm" -> ns["torque"]
          [] c = "Oil_Viscosity" -> ns["oil_viscosity"]
          [] c = "Ambient_Humidity" -> ns["humidity"]
          [] c = "Operator_Experience" -> ns["operator_exp"]
          [] c = "Last_Service_Days" -> ns["last_service_days"]
          [] c = "Fault_Code" -> ns["fault_code"]
          [] c = "Working_Hours_Total" -> ns["working_hours"]
          [] c = "Rolling_Avg_Temp" -> ns["rolling_avg_temp"]
          [] c = "Stress_Index" -> ns["stress_index"]
          [] c = "Machine_Age" -> ns["machine_age"]
          [] OTHER -> ns["operator_level"]]

\* ----------------------------------------------------------- presenter
RulSufficient == 1000
RulPreventive == 300

\* f"{probability:.2%}": the percentage with two decimals, in 1/100 percent.
PercentText(p) == RoundHalfEven(p * 10000, ProbUnit)

\* The magnitudes |p| <= 4000 (in 1/ProbUnit) at which the double product
\* probability * 100 is just below the whole number it stands for, e.g.
\* 0.29 * 100 = 28.999999999999996.
ProductRoundsBelow ==
    {290, 570, 580, 1130, 1140, 1150, 1160, 2010, 2030, 2050, 2070, 2260,
     2280, 2300, 2320, 2510, 2530, 2550}

\* int(probability * 100), the argument of st.progress: the double product,
\* truncated toward zero.
ProgressValue(p) ==
    LET a == IF p >= 0 THEN p ELSE -p
        t == TruncDiv(a * 100, ProbUnit) - (IF a \in ProductRoundsBelow THEN 1 ELSE 0)
    IN  IF p >= 0 THEN t ELSE -t

\* st.progress rejects an integer outside 0..100.
progress_raises(v) == v < 0 \/ v > 100

\* f"{rul_prediction:.0f} hrs"
HoursText(r) == RoundHalfEven(r, RulUnit)

\* Variant: the verdict taken from the probability instead of the class.
HealthStatus_byProbability(c) ==
    IF 2 * globals["probability"] < ProbUnit
    THEN Element("tab1", "success", "Healthy - No immediate maintenance required.", 0)
    ELSE Element("tab1", "error", "High Risk of Failure - Immediate maintenance required.", 0)

HealthStatus(c) ==
    IF c = 0
    THEN Element("tab1", "success", "Healthy - No immediate maintenance required.", 0)
    ELSE Element("tab1", "error", "High Risk of Failure - Immediate maintenance required.", 0)

\* Variant: both thresholds inclusive on the upper tier (>= for >).
RulAdvisory_inclusive(r) ==
    IF r >= RulSufficient * RulUnit
    THEN Element("tab1", "info", "Machine has sufficient remaining life.", 0)
    ELSE IF r >= RulPreventive * RulUnit
    THEN Element("tab1", "warning", "Preventive maintenance recommended soon.", 0)
    ELSE Element("tab1", "error", "Remaining useful life critically low.", 0)

RulAdvisory(r) ==
    IF r > RulSufficient * RulUnit
    THEN Element("tab1", "info", "Machine has sufficient remaining life.", 0)
    ELSE IF r > RulPreventive * RulUnit
    THEN Element("tab1", "warning", "Preventive maintenance recommended soon.", 0)
    ELSE Element("tab1", "error", "Remaining useful life critically low.", 0)

\* with col1: subheader and metric, rendered before st.progress is called.
ProbabilityElements(p) ==
    <<Element("tab1", "subheader", "Failure Probability", 0),
      Element("tab1", "metric", "Probability of Failure (Next 24H)", PercentText(p))>>

\* The rest of tab1, from st.progress on.
OverviewElements(p, c, r) ==
    <<Element("tab1", "progress", "", ProgressValue(p)),
      Element("tab1", "subheader", "Remaining Useful Life", 0),
      Element("tab1", "metric", "Estimated Remaining Hours", HoursText(r)),
      Element("tab1", "subheader", "Machine Health Status", 0),
      HealthStatus(c),
      RulAdvisory(r)>>

ExceptionElement(exc) == Element("main", "exception", exc, 0)

\* ----------------------------------------------------------- explainer
\* plt.subplots(): a new, empty figure.
BlankFigure == [plot |-> <<>>]

\* The figure after shap.plots.waterfall drew the Explanation on it.
WaterfallFigure(values, base, data) ==
    [plot |-> <<[values |-> values, base_values |-> base, data |-> data]>>]

\* Variant: the explainer is handed the numeric columns of the raw frame.
ExplainerInput_frame(ns) ==
    [c \in DOMAIN ns["input_df"] \ CategoricalColumns |-> ns["input_df"][c]]

\* The argument of explainer.shap_values at line 147.
ExplainerInput(ns) == ns["X_input"]

\* if predict_button: ... else: ...
AfterTabs(button) == IF button THEN "L67" ELSE "L180"

\* ------------------------------------------------------------- actions
Step(name) == steps' = Append(steps, name)

\* An artifact or library call made on the argument arg.
Called(fn, arg) == calls' = Append(calls, [fn |-> fn, arg |-> arg])

Raise(exc, shown) ==
    /\ pc' = "error"
    /\ display' = Append(shown, ExceptionElement(exc))

\* Variant: a failed load is swallowed and the name is bound to a placeholder.
joblib_load_lenient(line, file, name, next) ==
    /\ pc = line
    /\ loads' = [loads EXCEPT ![file] = @ + 1]
    /\ globals' = Bind(globals, name, IF disk[file].readable THEN disk[file].obj ELSE "None")
    /\ pc' = next
    /\ display' = display
    /\ Step(name)
    /\ UNCHANGED <<disk, runs, first, figures, calls>>

\* name = joblib.load(file)
joblib_load(line, file, name, next) ==
    /\ pc = line
    /\ loads' = [loads EXCEPT ![file] = @ + 1]
    /\ IF disk[file].readable
       THEN /\ globals' = Bind(globals, name, disk[file].obj)
            /\ pc' = next
            /\ display' = display
       ELSE /\ Raise("FileNotFoundError", display)
            /\ globals' = globals
    /\ Step(name)
    /\ UNCHANGED <<disk, runs, first, figures, calls>>

LoadModel == joblib_load("L10", "best_model.pkl", "model", "L11")

LoadRulModel == joblib_load("L11", "rul_model.pkl", "rul_model", "L12")

LoadPreprocessor == joblib_load("L12", "preprocessor.pkl", "preprocessor", "L14")

HeaderElements ==
    <<Element("main", "title", "Predictive Maintenance System", 0),
      Element("main", "write",
              "AI-driven industrial machine health monitoring and failure prediction.", 0)>>

PageHeader ==
    /\ pc = "L14"
    /\ display' = display \o HeaderElements
    /\ pc' = "L22"
    /\ Step("header")
    /\ UNCHANGED <<disk, globals, loads, runs, first, figures, calls>>

SidebarElements ==
    <<Element("sidebar", "header", "Machine Inputs", 0),
      Element("sidebar", "selectbox", "Machine Model", 0),
      Element("sidebar", "number_input", "Average Temperature (\\u00B0C)", 0),
      Element("sidebar", "number_input", "Vibration Level", 0),
      Element("sidebar", "number_input", "Rotating Speed (RPM)", 0),
      Element("sidebar", "number_input", "Voltage Fluctuation", 0),
      Element("sidebar", "number_input", "Torque (Nm)", 0),
      Element("sidebar", "number_input", "Oil Viscosity", 0),
      Element("sidebar", "number_input", "Ambient Humidity (%)", 0),
      Element("sidebar", "selectbox", "Operator Experience", 0),
      Element("sidebar", "number_input", "Days Since Last Service", 0),
      Element("sidebar", "selectbox", "Fault Code", 0),
      Element("sidebar", "number_input", "Total Working Hours", 0),
      Element("sidebar", "button", "Predict Machine Health", 0)>>

\* The namespace after the widget calls returned form f and the button state.
BindForm(ns, f, button) ==
    [n \in (DOMAIN ns) \cup WidgetNames \cup {"predict_button"} |->
        IF n = "predict_button" THEN button
        ELSE IF n \in WidgetNames THEN f[n] ELSE ns[n]]

\* The widgets return the values the operator has set, their defaults on the
\* first page load; the button returns True only in a run that a click on it
\* started, never in the first run.
SidebarInputs(F) ==
    /\ pc = "L22"
    /\ \E f \in F, button \in BOOLEAN :
         /\ button => runs > 1
         /\ runs = 1 => f = DefaultForm
         /\ globals' = BindForm(globals, f, button)
    /\ display' = display \o SidebarElements
    /\ pc' = "L60"
    /\ Step("sidebar")
    /\ UNCHANGED <<disk, loads, runs, first, figures, calls>>

TabsElement == Element("main", "tabs", "Overview|Explainability|Model Info", 0)

Tabs ==
    /\ pc = "L60"
    /\ display' = Append(display, TabsElement)
    /\ pc' = AfterTabs(globals["predict_button"])
    /\ Step("tabs")
    /\ UNCHANGED <<disk, globals, loads, runs, first, figures, calls>>

\* Lines 67-69: the namespace after the three derived features are bound.
\* (exp_map of line 71 is a literal; it is the definition exp_map.)
Derived(ns) ==
    LET ns1 == Bind(ns, "stress_index", stress_index(ns["torque"], ns["vibration"]))
        ns2 == Bind(ns1, "rolling_avg_temp", rolling_avg_temp(ns["temp"]))
    IN  Bind(ns2, "machine_age", machine_age(ns["working_hours"]))

\* Lines 67-94: the namespace after the derived features and the frame are bound.
Engineered(ns) ==
    LET ns4 == Bind(Derived(ns), "operator_level", exp_map[ns["operator_exp"]])
    IN  Bind(ns4, "input_df", input_df(ns4))

FeatureEngineering ==
    /\ pc = "L67"
    /\ IF globals["operator_exp"] \in DOMAIN exp_map
       THEN /\ globals' = Engineered(globals)
            /\ pc' = "L99"
                /\ display' = display
       ELSE /\ Raise("KeyError", display)
            /\ globals' = Derived(globals)
    /\ Step("features")
    /\ UNCHANGED <<disk, loads, runs, first, figures, calls>>

\* Variant: the schema error is swallowed and the frame's own columns are used.
TransformFallback(ns, shown) ==
    /\ pc' = "L104"
    /\ display' = shown
    /\ globals' = Bind(ns, "X_input", ns["input_df"])
    /\ Called("transform", ns["input_df"])

\* X_input = preprocessor.transform(input_df) has no handler around it:
\* the call is made, and its exception ends the run.
TransformFailure(ns, shown) ==
    /\ Raise("ValueError", shown)
    /\ globals' = ns
    /\ Called("transform", ns["input_df"])

Transform ==
    /\ pc = "L99"
    /\ IF transform_raises(globals["preprocessor"], globals["input_df"])
       THEN TransformFailure(globals, display)
       ELSE LET X == transform(globals["preprocessor"], globals["input_df"])
            IN  /\ globals' = Bind(globals, "X_input", X)
                /\ calls' = Append(calls, [fn |-> "transform",
                                           arg |-> globals["input_df"], ret |-> X])
                /\ pc' = "L104"
                /\ display' = display
    /\ Step("transform")
    /\ UNCHANGED <<disk, loads, runs, first, figures>>

PredictProba ==
    /\ pc = "L104"
    /\ globals' = Bind(globals, "probability",
                       predict_proba(globals["model"], globals["X_input"]))
    /\ pc' = "L105"
    /\ Called("predict_proba", globals["X_input"])
    /\ Step("predict_proba")
    /\ UNCHANGED <<disk, display, loads, runs, first, figures>>

PredictClass ==
    /\ pc = "L105"
    /\ globals' = Bind(globals, "predicted_class",
                       predict(globals["model"], globals["X_input"]))
    /\ pc' = "L106"
    /\ Called("predict", globals["X_input"])
    /\ Step("predict")
    /\ UNCHANGED <<disk, display, loads, runs, first, figures>>

PredictRul ==
    /\ pc = "L106"
    /\ globals' = Bind(globals, "rul_prediction",
                       rul_predict(globals["rul_model"], globals["X_input"]))
    /\ pc' = "L111"
    /\ Called("rul_predict", globals["X_input"])
    /\ Step("rul_predict")
    /\ UNCHANGED <<disk, display, loads, runs, first, figures>>

RenderOverview ==
    /\ pc = "L111"
    /\ LET p == globals["probability"]
           c == globals["predicted_class"]
           r == globals["rul_prediction"]
       IN  IF progress_raises(ProgressValue(p))
           THEN Raise("StreamlitAPIException", display \o ProbabilityElements(p))
           ELSE /\ display' = display \o ProbabilityElements(p) \o OverviewElements(p, c, r)
                /\ pc' = "L141"
    /\ Step("overview")
    /\ UNCHANGED <<disk, globals, loads, runs, first, figures, calls>>

\* with tab2: st.subheader, before the try block.
ExplainHeader ==
    /\ pc = "L141"
    /\ display' = Append(display,
                         Element("tab2", "subheader", "Prediction Explanation (SHAP)", 0))
    /\ pc' = "L146"
    /\ Step("explain_header")
    /\ UNCHANGED <<disk, globals, loads, runs, first, figures, calls>>

\* Variant: no except clause, the SHAP exception ends the run.
ExplainFailure_uncaught(ns) ==
    /\ Raise("Exception", display)
    /\ globals' = ns

\* A statement of the try block raised: control goes to `except Exception`.
ExplainFailure(ns) ==
    /\ pc' = "L164"
    /\ display' = display
    /\ globals' = ns

\* explainer = shap.TreeExplainer(model)
TreeExplainer ==
    /\ pc = "L146"
    /\ IF globals["model"].shap = "TreeExplainer"
       THEN ExplainFailure(globals)
       ELSE /\ globals' = Bind(globals, "explainer",
                               [expected_value |-> expected_value(globals["model"])])
            /\ pc' = "L147"
            /\ display' = display
    /\ Step("TreeExplainer")
    /\ UNCHANGED <<disk, loads, runs, first, figures, calls>>

\* shap_values = explainer.shap_values(X_input)
ShapValues ==
    /\ pc = "L147"
    /\ Called("shap_values", ExplainerInput(globals))
    /\ IF globals["model"].shap = "shap_values"
       THEN ExplainFailure(globals)
       ELSE /\ globals' = Bind(globals, "shap_values",
                               shap_values(globals["model"], ExplainerInput(globals)))
            /\ pc' = "L149"
            /\ display' = display
    /\ Step("shap_values")
    /\ UNCHANGED <<disk, loads, runs, first, figures>>

\* fig, ax = plt.subplots(): the figure is added to pyplot's registry and
\* becomes the current figure; fig is its number.
Subplots ==
    /\ pc = "L149"
    /\ figures' = Append(figures, BlankFigure)
    /\ globals' = Bind(globals, "fig", Len(figures) + 1)
    /\ pc' = "L151"
    /\ Step("subplots")
    /\ UNCHANGED <<disk, display, loads, runs, first, calls>>

\* shap.plots.waterfall(shap.Explanation(...), show=False): drawn on the
\* current figure.
Waterfall ==
    /\ pc = "L151"
    /\ Called("waterfall", globals["X_input"])
    /\ IF globals["model"].shap = "waterfall"
       THEN /\ ExplainFailure(globals)
            /\ figures' = figures
       ELSE /\ figures' = [figures EXCEPT ![globals["fig"]] =
                               WaterfallFigure(globals["shap_values"],
                                               globals["explainer"].expected_value,
                                               globals["X_input"])]
            /\ globals' = globals
            /\ pc' = "L161"
            /\ display' = display
    /\ Step("waterfall")
    /\ UNCHANGED <<disk, loads, runs, first>>

\* st.pyplot(fig): the figure is painted; it is neither cleared nor closed.
Pyplot ==
    /\ pc = "L161"
    /\ display' = Append(display, Element("tab2", "pyplot", "waterfall", 0))
    /\ pc' = "L169"
    /\ Step("pyplot")
    /\ UNCHANGED <<disk, globals, loads, runs, first, figures, calls>>

\* except Exception: st.write(...)
Fallback ==
    /\ pc = "L164"
    /\ display' = Append(display, Element("tab2", "write",
                         "SHAP explanation not available for this model type.", 0))
    /\ pc' = "L169"
    /\ Step("fallback")
    /\ UNCHANGED <<disk, globals, loads, runs, first, figures, calls>>

ModelInfo ==
    /\ pc = "L169"
    /\ display' = display \o
         <<Element("tab3", "subheader", "System Summary", 0),
           Element("tab3", "write", "\\u2022 Classification model predicts probability of machine failure within the next 24 hours.", 0),
           Element("tab3", "write", "\\u2022 Regression model estimates Remaining Useful Life (RUL).", 0),
           Element("tab3", "write", "\\u2022 Feature engineering includes Stress Index and rolling metrics.", 0),
           Element("tab3", "write", "\\u2022 Health status is determined using the model's predicted class output.", 0),
           Element("tab3", "write", "\\u2022 SHAP is used for local explainability of predictions.", 0)>>
    /\ pc' = "L182"
    /\ Step("model_info")
    /\ UNCHANGED <<disk, globals, loads, runs, first, figures, calls>>

Prompt ==
    /\ pc = "L180"
    /\ display' = Append(display, Element("main", "info",
                         "Enter machine parameters and click 'Predict Machine Health'.", 0))
    /\ pc' = "L182"
    /\ Step("prompt")
    /\ UNCHANGED <<disk, globals, loads, runs, first, figures, calls>>

Footer ==
    /\ pc = "L182"
    /\ display' = display \o
         <<Element("main", "markdown", "---", 0),
           Element("main", "write",
                   "Industrial Predictive Maintenance powered by Machine Learning.", 0)>>
    /\ pc' = "done"
    /\ Step("footer")
    /\ UNCHANGED <<disk, globals, loads, runs, first, figures, calls>>

\* A run in which the trigger was fired.
IsCycle == Bound("predict_button") /\ globals["predict_button"]

\* The script returns or dies on its exception: its namespace is dropped and
\* the page stays as painted.  `first` remembers the first prediction cycle.
ScriptExit ==
    /\ pc \in {"done", "error"}
    /\ pc' = "idle"
    /\ globals' = EmptyNamespace
    /\ first' = IF IsCycle /\ first = <<>>
                THEN <<[in |-> CurrentForm, out |-> display]>>
                ELSE first
    /\ UNCHANGED <<disk, display, loads, runs, steps, figures, calls>>

\* A user interaction (or a reload of the page) executes the script again.
Rerun ==
    /\ pc = "idle"
    /\ runs < MaxRuns
    /\ runs' = runs + 1
    /\ pc' = "L10"
    /\ display' = <<>>
    /\ steps' = <<>>
    /\ calls' = <<>>
    /\ UNCHANGED <<disk, globals, loads, first, figures>>

Init ==
    /\ disk \in Stores
    /\ pc = "L10"
    /\ globals = EmptyNamespace
    /\ display = <<>>
    /\ loads = [f \in ArtifactFiles |-> 0]
    /\ runs = 1
    /\ steps = <<>>
    /\ first = <<>>
    /\ figures = <<>>
    /\ calls = <<>>

Next ==
    \/ LoadModel
    \/ LoadRulModel
    \/ LoadPreprocessor
    \/ PageHeader
    \/ SidebarInputs(CycleForms)
    \/ Tabs
    \/ FeatureEngineering
    \/ Transform
    \/ PredictProba
    \/ PredictClass
    \/ PredictRul
    \/ RenderOverview
    \/ ExplainHeader
    \/ TreeExplainer
    \/ ShapValues
    \/ Subplots
    \/ Waterfall
    \/ Pyplot
    \/ Fallback
    \/ ModelInfo
    \/ Prompt
    \/ Footer
    \/ ScriptExit
    \/ Rerun

Spec == Init /\ [][Next]_vars

\* ------------------------------------------- single-step specifications
\* A store with three readable artifacts, and the namespace after lines 10-12.
DefaultStore ==
    [f \in ArtifactFiles |->
        [readable |-> TRUE,
         obj |-> CASE f = "best_model.pkl" ->
                        [shap |-> "ok", lo |-> [p |-> 950, c |-> 0], hi |-> [p |-> 50, c |-> 1]]
                   [] f = "rul_model.pkl" -> [lo |-> 25000, hi |-> 120000]
                   [] OTHER -> [columns |-> Columns]]]

LoadedNamespace(store) ==
    Bind(Bind(Bind(EmptyNamespace, "model", store["best_model.pkl"].obj),
              "rul_model", store["rul_model.pkl"].obj),
         "preprocessor", store["preprocessor.pkl"].obj)

\* The script at line 67 of a triggered run, for every form of Forms.
InitFE ==
    /\ disk = DefaultStore
    /\ pc = "L67"
    /\ \E f \in Forms : globals = BindForm(LoadedNamespace(DefaultStore), f, TRUE)
    /\ display = HeaderElements \o SidebarElements \o <<TabsElement>>
    /\ loads = [f \in ArtifactFiles |-> 2]
    /\ runs = 2
    /\ steps = <<"model", "rul_model", "preprocessor", "header", "sidebar", "tabs">>
    /\ first = <<>>
    /\ figures = <<>>
    /\ calls = <<>>

NextFE == FeatureEngineering

SpecFE == InitFE /\ [][NextFE]_vars

\* Values the two models can hand to the presenter.
ProbSamples == {-15, -5, 0, 290, 500, 1000, 1500}
ClassSamples == {0, 1, 2}
RulSamples ==
    {-100, 0, 29999, 30000, 30001, 30050, 99999, 100000, 100001, 100050, 250000}

\* The script at line 111 of a triggered run, for every sampled model output.
InitOverview ==
    /\ disk = DefaultStore
    /\ pc = "L111"
    /\ \E p \in ProbSamples, c \in ClassSamples, r \in RulSamples :
         LET ns == Engineered(BindForm(LoadedNamespace(DefaultStore), DefaultForm, TRUE))
             nsX == Bind(ns, "X_input", transform(ns["preprocessor"], ns["input_df"]))
         IN  globals = Bind(Bind(Bind(nsX, "probability", p), "predicted_class", c),
                            "rul_prediction", r)
    /\ display = HeaderElements \o SidebarElements \o <<TabsElement>>
    /\ loads = [f \in ArtifactFiles |-> 2]
    /\ runs = 2
    /\ steps = <<"model", "rul_model", "preprocessor", "header", "sidebar", "tabs",
                 "features", "transform", "predict_proba", "predict", "rul_predict">>
    /\ first = <<>>
    /\ figures = <<>>
    /\ calls = <<[fn |-> "transform", arg |-> globals["input_df"],
                  ret |-> globals["X_input"]],
                 [fn |-> "predict_proba", arg |-> globals["X_input"]],
                 [fn |-> "predict", arg |-> globals["X_input"]],
                 [fn |-> "rul_predict", arg |-> globals["X_input"]]>>

NextOverview == RenderOverview

SpecOverview == InitOverview /\ [][NextOverview]_vars

\* ---------------------------------------------------------------- claims
StepSet == {steps[i] : i \in DOMAIN steps}

IsPrefix(s, t) == Len(s) <= Len(t) /\ \A i \in 1..Len(s) : s[i] = t[i]

ShownIn(tab) == {i \in 1..Len(display) : display[i].tab = tab}

TextCount(texts) == Cardinality({i \in 1..Len(display) : display[i].text \in texts})

AdvisoryTexts ==
    {"Machine has sufficient remaining life.", "Preventive maintenance recommended soon.",
     "Remaining useful life critically low."}

VerdictTexts ==
    {"Healthy - No immediate maintenance required.",
     "High Risk of Failure - Immediate maintenance required."}

FallbackText == "SHAP explanation not available for this model type."

FooterText == "Industrial Predictive Maintenance powered by Machine Learning."

\* C1: once the overview is rendered, exactly one RUL advisory is shown:
\* "sufficient" iff r > 1000, "preventive maintenance" iff 300 < r <= 1000,
\* "critically low" iff r <= 300 (so r = 1000 is the middle tier and r = 300
\* the critically-low tier).
C1_RulAdvisoryTiers ==
    pc = "L141" =>
        LET r == globals["rul_prediction"]
        IN  /\ TextCount(AdvisoryTexts) = 1
            /\ ShownText("Machine has sufficient remaining life.") <=> r > 1000 * RulUnit
            /\ ShownText("Preventive maintenance recommended soon.")
                   <=> (r > 300 * RulUnit /\ r <= 1000 * RulUnit)
            /\ ShownText("Remaining useful life critically low.") <=> r <= 300 * RulUnit

C1_Witness ==
    /\ pc = "L141"
    /\ globals["rul_prediction"] = 1000 * RulUnit
    /\ ShownText("Preventive maintenance recommended soon.")

\* C2: when the SHAP computation fails at any of its three stages
\* (TreeExplainer, shap_values, waterfall), control goes to the except clause
\* (line 164), the explanation tab shows the fallback text and no chart, no
\* exception reaches the page, the overview rendered before stays, and the
\* run goes on to the model-info tab and the footer.
C2_ExplainFailureContained ==
    ("TreeExplainer" \in StepSet
       /\ disk["best_model.pkl"].obj.shap # "ok"
       /\ disk["best_model.pkl"].obj.shap \in StepSet) =>
        /\ pc \in {"L164", "L169", "L182", "done", "idle"}
        /\ pc # "L164" => ShownText(FallbackText)
        /\ Elements("pyplot") = {}
        /\ Elements("exception") = {}
        /\ Cardinality(Shown("tab1", "metric")) = 2
        /\ TextCount(VerdictTexts) = 1
        /\ TextCount(AdvisoryTexts) = 1
        /\ pc \in {"done", "idle"} => (Shown("tab3", "subheader") # {} /\ ShownText(FooterText))

C2_Witness ==
    /\ pc = "done"
    /\ disk["best_model.pkl"].obj.shap = "shap_values"
    /\ "shap_values" \in StepSet
    /\ ShownText(FallbackText)
    /\ ShownText(FooterText)

\* C3: when the preprocessor's transform fails on the Observation, the run
\* ends on the exception: nothing is rendered in any tab, the failed
\* transform is the only call of the run (no model and no explainer is
\* called), and no transformed vector or model output is bound.
C3_SchemaMismatchAborts ==
    ("transform" \in StepSet /\ ~(disk["preprocessor.pkl"].obj.columns \subseteq Columns)) =>
        /\ pc \in {"error", "idle"}
        /\ Elements("exception") # {}
        /\ ShownIn("tab1") = {} /\ ShownIn("tab2") = {} /\ ShownIn("tab3") = {}
        /\ StepSet \cap {"predict_proba", "predict", "rul_predict", "overview",
                       "explain_header", "TreeExplainer", "shap_values", "subplots",
                       "waterfall", "pyplot", "fallback", "model_info"} = {}
        /\ Len(calls) = 1 /\ calls[1].fn = "transform"
        /\ (DOMAIN globals) \cap
              {"X_input", "probability", "predicted_class", "rul_prediction"} = {}

C3_Witness ==
    /\ pc = "error"
    /\ "transform" \in StepSet
    /\ Bound("input_df")
    /\ ~Bound("X_input")
    /\ calls = <<[fn |-> "transform", arg |-> globals["input_df"]]>>

\* C4: with an unreadable artifact in the store, no run ever renders a
\* sidebar widget or the trigger, binds a widget value, or starts a cycle.
C4_LoadFailureBlocksInput ==
    (\E f \in ArtifactFiles : ~disk[f].readable) =>
        /\ pc \in {"L10", "L11", "L12", "error", "idle"}
        /\ ShownIn("sidebar") = {}
        /\ (DOMAIN globals) \cap (WidgetNames \cup {"predict_button"}) = {}
        /\ StepSet \subseteq {"model", "rul_model", "preprocessor"}

C4_Witness ==
    /\ pc = "error"
    /\ ~disk["preprocessor.pkl"].readable
    /\ Bound("model") /\ Bound("rul_model")
    /\ Elements("exception") # {}

\* C5: a completed prediction cycle shows exactly one health verdict:
\* "Healthy" iff the predicted class is 0, "High Risk" otherwise, whatever
\* the probability and the RUL estimate are.
C5_VerdictFromClass ==
    (pc = "done" /\ IsCycle) =>
        /\ TextCount(VerdictTexts) = 1
        /\ ShownText("Healthy - No immediate maintenance required.")
               <=> globals["predicted_class"] = 0
        /\ ShownText("High Risk of Failure - Immediate maintenance required.")
               <=> globals["predicted_class"] # 0

C5_Witness ==
    /\ pc = "done" /\ IsCycle
    /\ globals["predicted_class"] = 0
    /\ globals["probability"] = 950
    /\ globals["rul_prediction"] = 25000
    /\ ShownText("Healthy - No immediate maintenance required.")

\* C6: the frame built by lines 67-94 has exactly the 16 columns; the 12 raw
\* columns carry the widget values, Stress_Index = Torque_Nm * Vibration_Level,
\* Rolling_Avg_Temp = Avg_Temperature, Machine_Age = Working_Hours_Total, and
\* Operator_Experience_Level is 1, 2, 3 for Junior, Mid, Senior; a frame is
\* only built from one of these three experience values.
C6_ObservationFields ==
    Bound("input_df") =>
        LET df == globals["input_df"]
        IN  /\ DOMAIN df = Columns /\ Cardinality(DOMAIN df) = 16
            /\ df["Machine_Model"] = globals["machine_model"]
            /\ df["Avg_Temperature"] = globals["temp"]
            /\ df["Vibration_Level"] = globals["vibration"]
            /\ df["Rotating_Speed"] = globals["rot_speed"]
            /\ df["Voltage_Fluctuation"] = globals["voltage"]
            /\ df["Torque_Nm"] = globals["torque"]
            /\ df["Oil_Viscosity"] = globals["oil_viscosity"]
            /\ df["Ambient_Humidity"] = globals["humidity"]
            /\ df["Operator_Experience"] = globals["operator_exp"]
            /\ df["Last_Service_Days"] = globals["last_service_days"]
            /\ df["Fault_Code"] = globals["fault_code"]
            /\ df["Working_Hours_Total"] = globals["working_hours"]
            /\ df["Stress_Index"] = df["Torque_Nm"] * df["Vibration_Level"]
            /\ df["Rolling_Avg_Temp"] = df["Avg_Temperature"]
            /\ df["Machine_Age"] = df["Working_Hours_Total"]
            /\ df["Operator_Experience"] \in {"Junior", "Mid", "Senior"}
            /\ df["Operator_Experience"] = "Junior" => df["Operator_Experience_Level"] = 1
            /\ df["Operator_Experience"] = "Mid" => df["Operator_Experience_Level"] = 2
            /\ df["Operator_Experience"] = "Senior" => df["Operator_Experience_Level"] = 3

C6_Witness ==
    /\ pc = "L99"
    /\ globals["input_df"]["Operator_Experience"] = "Mid"
    /\ globals["input_df"]["Operator_Experience_Level"] = 2
    /\ globals["input_df"]["Torque_Nm"] = 200
    /\ globals["input_df"]["Vibration_Level"] = 20
    /\ globals["input_df"]["Stress_Index"] = 4000

\* C7: whenever the overview step has run, the probability it was handed is
\* in [0,1] and the class is 0 or 1.
C7_ProbabilityAndClassInRange ==
    ("overview" \in StepSet /\ Bound("probability")) =>
        /\ globals["probability"] >= 0 /\ globals["probability"] <= ProbUnit
        /\ globals["predicted_class"] \in {0, 1}

\* C8: each artifact is loaded at most once in the life of the process.
C8_LoadedOnce == \A f \in ArtifactFiles : loads[f] <= 1

\* C9: nothing of a prediction cycle survives it: between runs the script
\* namespace is empty and pyplot holds no figure, a loaded artifact is the
\* object in the store, and a cycle run on the same form as the first
\* recorded cycle paints the same page, whatever ran in between.
C9_NoStateAcrossCycles ==
    /\ pc = "idle" => (globals = EmptyNamespace /\ figures = <<>>)
    /\ Bound("model") => globals["model"] = disk["best_model.pkl"].obj
    /\ Bound("rul_model") => globals["rul_model"] = disk["rul_model.pkl"].obj
    /\ Bound("preprocessor") => globals["preprocessor"] = disk["preprocessor.pkl"].obj
    /\ (pc \in {"done", "error"} /\ IsCycle /\ first # <<>>) =>
           (CurrentForm = first[1].in => display = first[1].out)

\* The orders in which the statements of a run can execute.
Loading ==
    <<"model", "rul_model", "preprocessor", "header", "sidebar", "tabs">>

Predicting ==
    Loading \o <<"features", "transform", "predict_proba", "predict", "rul_predict",
                 "overview", "explain_header">>

ExplainStages == <<"TreeExplainer", "shap_values", "subplots", "waterfall">>

CycleOrder ==
    Predicting \o ExplainStages \o <<"pyplot", "model_info", "footer">>

\* The explainer raised at its k-th statement.
FallbackOrder(k) ==
    Predicting \o SubSeq(ExplainStages, 1, k) \o <<"fallback", "model_info", "footer">>

PromptOrder == Loading \o <<"prompt", "footer">>

RunOrders == {CycleOrder, PromptOrder} \cup {FallbackOrder(k) : k \in {1, 2, 4}}

CycleSteps ==
    {"features", "transform", "predict_proba", "predict", "rul_predict",
     "overview", "explain_header", "TreeExplainer", "shap_values", "subplots",
     "waterfall", "pyplot", "fallback", "model_info"}

TransformCalls == {i \in DOMAIN calls : calls[i].fn = "transform"}

\* The calls of the three model outputs and of the Explainer.
VectorCalls ==
    {i \in DOMAIN calls :
        calls[i].fn \in {"predict_proba", "predict", "rul_predict",
                         "shap_values", "waterfall"}}

PromptText == "Enter machine parameters and click 'Predict Machine Health'."

\* C10: the statements of a run are a prefix of one fixed order (each at most
\* once): load, transform, the three model outputs, the overview, the
\* Explainer, then the chart or the fallback text; the Observation is
\* transformed once, and every model call and every Explainer call gets the
\* vector that transform returned; the chart painted is drawn from that
\* vector; the overview is rendered only with all three outputs bound; the
\* chart or fallback text only after the Explainer ran; and a run whose
\* trigger is not fired performs none of the cycle's steps and shows only
\* the prompt.
C10_LinearOrder ==
    /\ \E o \in RunOrders : IsPrefix(steps, o)
    /\ (Bound("predict_button") /\ ~globals["predict_button"]) =>
           /\ StepSet \cap CycleSteps = {}
           /\ calls = <<>>
           /\ ShownIn("tab1") = {} /\ ShownIn("tab2") = {} /\ ShownIn("tab3") = {}
           /\ pc \in {"L182", "done"} => ShownText(PromptText)
    /\ Cardinality(TransformCalls) <= 1
    /\ \A i \in DOMAIN calls, j \in DOMAIN calls : calls[i].fn = calls[j].fn => i = j
    /\ \A i \in VectorCalls :
           \E j \in TransformCalls : j < i /\ calls[i].arg = calls[j].ret
    /\ (pc # "idle" /\ StepSet \cap {"predict_proba", "predict", "rul_predict"} # {}) =>
           Bound("X_input")
    /\ Bound("X_input") =>
           \E j \in TransformCalls :
               /\ calls[j].ret = globals["X_input"]
               /\ calls[j].arg = globals["input_df"]
    /\ Bound("probability") =>
           globals["probability"] = predict_proba(globals["model"], globals["X_input"])
    /\ Bound("predicted_class") =>
           globals["predicted_class"] = predict(globals["model"], globals["X_input"])
    /\ Bound("rul_prediction") =>
           globals["rul_prediction"] = rul_predict(globals["rul_model"], globals["X_input"])
    /\ (pc # "idle" /\ ShownIn("tab1") # {}) =>
           {"probability", "predicted_class", "rul_prediction"} \subseteq DOMAIN globals
    /\ (pc # "idle" /\ Elements("pyplot") # {}) =>
           /\ {"shap_values", "waterfall"} \subseteq {calls[i].fn : i \in DOMAIN calls}
           /\ figures[globals["fig"]].plot[1].data = globals["X_input"]
    /\ (ShownText(FallbackText) \/ Elements("pyplot") # {}) =>
           /\ Cardinality(Shown("tab1", "metric")) = 2
           /\ "TreeExplainer" \in StepSet
    /\ IsCycle => ~ShownText(PromptText)

C10_Witness ==
    /\ pc = "done" /\ IsCycle
    /\ steps = CycleOrder
    /\ Len(calls) = 6
    /\ calls[5].arg = calls[1].ret
    /\ calls[1].arg["Machine_Model"] = "Model_A"
    /\ calls[1].ret["Machine_Model"] = 0
    /\ Elements("pyplot") # {}

====
